---- MODULE Spec2Model ----
(***************************************************************************)
(* Model of auth-api.py: one invocation loads the state file, prunes the   *)
(* expired rules through the remote API, scans the log from the saved      *)
(* byte offset, creates a rule for every new login IP and saves the state  *)
(* through a temporary file.  The environment (log writer, log rotation,   *)
(* clock, remote service, process kill) acts between the steps.            *)
(*                                                                         *)
(* The log is a sequence of bytes.  A byte is one of the tokens below; the *)
(* marker "Exchange session: Badger sent " is the single token "M", a JSON *)
(* member list is a single payload token, and "E1","E2" are the two bytes  *)
(* of one two-byte UTF-8 character.                                        *)
(***************************************************************************)
EXTENDS Integers, Sequences, FiniteSets, TLC

\* ---------------------------------------------------------------- bounds
MaxRuns == 2
MaxFileBytes == 10
MaxClock == 360
MaxRunEvents == 1
MaxIds == 4

\* ------------------------------------------------------------- constants
TTL_MINUTES == 360

\* ------------------------------------------------------------ log content
IpA == <<"1", ".", "1">>
IpB == <<"2", ".", "2">>

\* The members of the JSON object a payload token stands for: the value of
\* "requestIp" when the object has one (a string, or a non-string value).
Payload(tok) ==
  CASE tok = "A" -> [has |-> TRUE,  str |-> TRUE,  val |-> IpA \o <<":", "4">>]
    [] tok = "B" -> [has |-> TRUE,  str |-> TRUE,  val |-> IpB \o <<":", "4">>]
    [] tok = "N" -> [has |-> TRUE,  str |-> FALSE, val |-> <<>>]
    [] tok = "D" -> [has |-> TRUE,  str |-> TRUE,  val |-> <<"h", ":", "4">>]
    [] OTHER     -> [has |-> FALSE, str |-> TRUE,  val |-> <<>>]

PayloadToks == {"A", "B", "N", "D", "O"}

\* What the log writer appends in one write: whole lines, or a line not yet
\* terminated.
Chunks ==
  { <<"M", "{", "A", "}", "LF">>,
    <<"M", "{", "B", "}", "CR", "LF">>,
    <<"M", "{", "N", "}", "LF">>,
    <<"M", "{", "E1", "E2">> }

\* ------------------------------------------------------------ sequences
RECURSIVE IndexFrom(_, _, _)
\* least i >= k with s[i] = x, or 0
IndexFrom(s, x, k) ==
  IF k > Len(s) THEN 0
  ELSE IF s[k] = x THEN k ELSE IndexFrom(s, x, k + 1)

RECURSIVE RIndexFrom(_, _, _)
\* greatest i <= k with s[i] = x, or 0
RIndexFrom(s, x, k) ==
  IF k < 1 THEN 0
  ELSE IF s[k] = x THEN k ELSE RIndexFrom(s, x, k - 1)

Contains(s, x) == IndexFrom(s, x, 1) # 0

\* s[a..b] as Python's s[a-1:b]
Slice(s, a, b) == IF a > b THEN <<>> ELSE SubSeq(s, a, b)

\* ------------------------------------------------- reading the log (text mode)
\* open(LOG_FILE, "r", encoding="utf-8") and "for line in f": the file is
\* decoded as UTF-8 with universal newlines, so "\n", "\r" and "\r\n" all
\* end a line and all reach the program as "\n".

IsTerminator(b) == b = "LF" \/ b = "CR"

RECURSIVE TermFrom(_, _)
\* index of the first line terminator at or after index k, or 0
TermFrom(bytes, k) ==
  IF k > Len(bytes) THEN 0
  ELSE IF IsTerminator(bytes[k]) THEN k ELSE TermFrom(bytes, k + 1)

\* Decoding that starts on the second byte of a two-byte character raises
\* UnicodeDecodeError.
DecodeFails(bytes, pos) == pos < Len(bytes) /\ bytes[pos + 1] = "E2"

\* The next line at byte offset pos (pos < Len(bytes)): its text without the
\* newline, whether a newline ended it, and the bytes it takes in the file.
ReadLine(bytes, pos) ==
  LET t == TermFrom(bytes, pos + 1) IN
  IF t = 0
    THEN [text |-> Slice(bytes, pos + 1, Len(bytes)), term |-> FALSE,
          raw |-> Len(bytes) - pos]
    ELSE [text |-> Slice(bytes, pos + 1, t - 1), term |-> TRUE,
          raw |-> IF bytes[t] = "CR" /\ t < Len(bytes) /\ bytes[t + 1] = "LF"
                    THEN t + 1 - pos ELSE t - pos]

\* len(line): characters of the line as read
CharLen(line) ==
  Cardinality({i \in 1..Len(line.text) : line.text[i] # "E2"})
    + (IF line.term THEN 1 ELSE 0)

\* len(line.encode("utf-8")): every token is one byte, the newline is one byte
LineBytes(line) == Len(line.text) + (IF line.term THEN 1 ELSE 0)

\* ------------------------------------------------------- extract_login_ip
NoIp == [tag |-> "none", ip |-> <<>>]

\* json.loads of the text between the first "{" and the last "}": an object
\* holding one member list, or the empty object; anything else raises
\* JSONDecodeError.
JsonLoads(part) ==
  IF part = <<"{", "}">> THEN [ok |-> TRUE, obj |-> Payload("O")]
  ELSE IF Len(part) = 3 /\ part[1] = "{" /\ part[3] = "}" /\ part[2] \in PayloadToks
    THEN [ok |-> TRUE, obj |-> Payload(part[2])]
    ELSE [ok |-> FALSE, obj |-> Payload("O")]

\* ip_port.split(":")[0]
SplitColon(s) ==
  LET c == IndexFrom(s, ":", 1) IN IF c = 0 THEN s ELSE Slice(s, 1, c - 1)

extract_login_ip(text) ==
  IF ~Contains(text, "M") THEN NoIp
  ELSE
    LET i == IndexFrom(text, "{", 1)
        j == RIndexFrom(text, "}", Len(text))
    IN
    IF i = 0 \/ j = 0 THEN NoIp                      \* ValueError, caught
    ELSE
      LET parsed == JsonLoads(Slice(text, i, j)) IN
      IF ~parsed.ok THEN NoIp                        \* JSONDecodeError, caught
      ELSE IF parsed.obj.has /\ ~parsed.obj.str
        THEN [tag |-> "raise", ip |-> <<>>]          \* AttributeError, not caught
        ELSE
          LET ip_port == IF parsed.obj.has THEN parsed.obj.val ELSE <<>>
              ip == SplitColon(ip_port)
          IN IF ip # <<>> /\ Contains(ip, ".")
               THEN [tag |-> "ip", ip |-> ip] ELSE NoIp

\* ------------------------------------------------------------ remote API
\* A response to PUT .../rule: no response (the request raised), or a
\* status and a body. json: the body parses as a JSON object; data: the
\* body's "data" member is absent, null or an object; ruleId: data.ruleId
\* when data is an object; id: the body's "id"; 0 is a missing or empty
\* identifier.
NoResponse ==
  [exc |-> TRUE, status |-> 0, json |-> FALSE, data |-> "absent",
   ruleId |-> 0, id |-> 0]

\* The responses the service gives in a run: object bodies that may name the
\* new rule in either place.
CreateResponses(newId) ==
  LET ids == IF newId <= MaxIds THEN {0, newId} ELSE {0} IN
  {NoResponse} \cup
  [exc : {FALSE}, status : {200, 201, 202, 500}, json : {TRUE},
   data : {"obj"}, ruleId : ids, id : ids]

ApiStatuses == {199, 200, 201, 202, 204, 299, 300, 500}

\* The responses create_rule is applied to on its own
ApiCreateResponses ==
  {NoResponse} \cup
  [exc : {FALSE}, status : ApiStatuses, json : BOOLEAN,
   data : {"absent", "null", "obj"}, ruleId : {0, 7}, id : {0, 7}]

\* The identifier a body names: data.ruleId, or else id
RespId(resp) ==
  IF resp.data = "obj" /\ resp.ruleId # 0 THEN resp.ruleId ELSE resp.id

\* The service has made the rule when it answers 200 (OK) or 201 (Created)
\* and names the rule; 202 (Accepted) promises nothing yet, and a request
\* that timed out or was refused has made none.
ServiceCreates(resp) ==
  ~resp.exc /\ resp.status \in {200, 201} /\ RespId(resp) # 0

\* None, and str(rule_id): the identifier as text, <<>> when there is none
None == <<>>

Str(id) == IF id = 0 THEN <<>> ELSE <<id>>

\* The identifier in the text of a request URL, as the service reads it
UrlId(text) == IF text = <<>> THEN 0 ELSE text[1]

CreateAny2xx(resp) ==
  IF resp.exc THEN None
  ELSE IF resp.status \in 200..299 THEN Str(RespId(resp)) ELSE None

\* create_rule's return value: str(rule_id), or None. resp.json() of a body
\* that is not JSON raises, and so does .get on a null "data"; "except
\* Exception" turns both into None.
create_rule(resp) ==
  IF resp.exc THEN None
  ELSE IF resp.status \in {200, 201}
    THEN IF ~resp.json \/ resp.data = "null" THEN None ELSE Str(RespId(resp))
    ELSE None

\* A response to DELETE .../rule/<id>
DeleteResponses ==
  {[exc |-> TRUE, status |-> 0]} \cup
  [exc : {FALSE}, status : {200, 204, 202, 500}]

\* The responses delete_rule is applied to on its own
ApiDeleteResponses ==
  {[exc |-> TRUE, status |-> 0]} \cup [exc : {FALSE}, status : ApiStatuses]

\* The service has removed the rule when it answers 200 (OK) or 204 (No
\* Content); 202 (Accepted) promises nothing yet.
ServiceDeletes(resp) == ~resp.exc /\ resp.status \in {200, 204}

\* delete_rule's return value for a response that arrived
delete_rule(resp) == resp.status \in {200, 204}

\* ------------------------------------------------------------- state file
Iso(t) == [iso |-> t]            \* datetime.isoformat()
FromIso(s) == s.iso              \* datetime.fromisoformat()

DefaultState == [last_position |-> 0, rules |-> <<>>]

\* A file at the state path: whether it exists, whether its text is a
\* complete JSON document (full), and the document's shape: "state", an
\* object with last_position and rules (data); "obj", an object that lacks
\* one of them; "num", a number, true, false or null;
\* "locked" is a file that cannot be opened for reading.
NoFile == [exists |-> FALSE, full |-> FALSE, shape |-> "state", data |-> DefaultState]

StateDoc(st) == [exists |-> TRUE, full |-> TRUE, shape |-> "state", data |-> st]

OddFile(full, shape) ==
  [exists |-> TRUE, full |-> full, shape |-> shape, data |-> DefaultState]

\* The conditions a state file can be in when load_state meets it.
StateFileConditions ==
  {NoFile, OddFile(TRUE, "locked"), OddFile(FALSE, "state"),
   OddFile(TRUE, "obj"), OddFile(TRUE, "num")}


\* load_state raises: open() of an unreadable file (PermissionError), and
\* '"last_position" in data' on a number or null (TypeError); only
\* FileNotFoundError and JSONDecodeError are caught.
LoadRaises(file) ==
  file.exists /\ (file.shape = "locked" \/ (file.full /\ file.shape = "num"))

\* load_state's return value: a missing file, a file that is not complete
\* JSON, and a document without the two fields give the default state.
load_state(file) ==
  IF ~file.exists THEN DefaultState
  ELSE IF ~file.full THEN DefaultState
  ELSE IF file.shape = "state" THEN file.data
  ELSE DefaultState

\* The state file before the first invocation: absent, the case every later
\* step of a run depends on, or one that load_state cannot return from. The
\* files that load as the default state behave as the absent one from the
\* load on; load_state is applied to them in SpecApi.
FirstStateFiles == {f \in StateFileConditions : ~f.exists \/ LoadRaises(f)}

SaveDirect == "state"

\* tmp_path = f"{path}.tmp": the file save_state writes before the rename
SavePath == "tmp"

\* ------------------------------------------------------------ rule set
\* A dict in insertion order: a sequence of records with distinct ips.
Keys(rules) == {rules[i].ip : i \in DOMAIN rules}

NoKey(rules, ip) == FALSE

\* "ip in active_rules"
HasKey(rules, ip) == ip \in Keys(rules)

\* active_rules[ip] = info
Put(rules, info) ==
  IF info.ip \in Keys(rules)
    THEN [i \in DOMAIN rules |-> IF rules[i].ip = info.ip THEN info ELSE rules[i]]
    ELSE Append(rules, info)

Get(rules, ip) == rules[CHOOSE i \in DOMAIN rules : rules[i].ip = ip]

ExpiredAlways(info, t) == TRUE

\* "now >= expires_at"
Expired(info, t) == t >= FromIso(info.expires_at)

ExpiresFromStart(t_start, t_call) == Iso(t_start + TTL_MINUTES)

\* "(datetime.now(timezone.utc) + timedelta(minutes=TTL_MINUTES)).isoformat()"
\* read at the call (t_call), not at the start of the run (t_start)
ExpiresAt(t_start, t_call) == Iso(t_call + TTL_MINUTES)

AfterCreateAlways(rules, ip, rule_id, exp) ==
  Put(rules, [ip |-> ip, rule_id |-> rule_id, expires_at |-> exp])

\* "if rule_id: active_rules[ip] = {...}"
AfterCreate(rules, ip, rule_id, exp) ==
  IF rule_id # None
    THEN Put(rules, [ip |-> ip, rule_id |-> rule_id, expires_at |-> exp])
    ELSE rules

KeepAlways(success) == TRUE

KeepNever(success) == FALSE

\* "if not success: updated_rules[ip] = info"
KeepAfterDelete(success) == ~success

\* The state files load_state is applied to on its own
ApiStateFiles ==
  StateFileConditions \cup
  {StateDoc([last_position |-> n, rules |-> <<>>]) : n \in {0, 5}}

NoProbe ==
  [op |-> "none", resp |-> NoResponse, file |-> NoFile, rule_id |-> None,
   success |-> FALSE, raised |-> FALSE, loaded |-> DefaultState]

\* ------------------------------------------------------------------ state
VARIABLES
  clock,          \* the wall clock, in minutes
  logFile,        \* LOG_FILE: whether it exists, and its bytes
  files,          \* STATE_FILE ("state") and STATE_FILE.tmp ("tmp")
  nextId,         \* the identifier the service gives the next rule
  remote,         \* the service: identifiers of the rules that exist
  probe,          \* the response and result of one call of the API client
  runs,           \* invocations started so far
  pc,             \* where the current invocation stands
  state,          \* main: state
  last_position,  \* main: last_position
  active_rules,   \* main: active_rules
  updated_rules,  \* main: updated_rules
  now,            \* main: now
  pi,             \* main: index of the prune loop in active_rules.items()
  fpos,           \* the open log file's read position
  new_position,   \* main: new_position
  h               \* history of the current invocation

vars == <<clock, logFile, files, nextId, remote, probe, runs, pc, state, last_position,
          active_rules, updated_rules, now, pi, fpos, new_position, h>>

locals == <<state, last_position, active_rules, updated_rules, now, pi, fpos,
            new_position>>

\* History of one invocation: the state file and the offset it started from,
\* whether it detected a rotation, what happened to the log while it ran (and
\* how many events of the environment it saw), the remote calls it made and
\* the lines it read.
H0 == [file0 |-> NoFile, offset0 |-> 0, size0 |-> 0, rotated |-> FALSE,
       appended |-> FALSE,
       replaced |-> FALSE, env |-> 0, calls |-> <<>>, lines |-> <<>>]

Terminal ==
  {"done", "fatal", "exc_load", "exc_delete", "exc_extract", "exc_decode", "killed"}

Init ==
  /\ clock = 0
  /\ logFile \in {[exists |-> FALSE, bytes |-> <<>>], [exists |-> TRUE, bytes |-> <<>>]}
  /\ \E f \in FirstStateFiles :
       files = [p \in {"state", "tmp"} |-> IF p = "state" THEN f ELSE NoFile]
  /\ nextId = 1
  /\ remote = {}
  /\ probe = NoProbe
  /\ runs = 0
  /\ pc = "idle"
  /\ state = DefaultState
  /\ last_position = 0
  /\ active_rules = <<>>
  /\ updated_rules = <<>>
  /\ now = 0
  /\ pi = 0
  /\ fpos = 0
  /\ new_position = 0
  /\ h = H0

\* ------------------------------------------------------------ environment
\* The environment acts between invocations and, inside one, at two points:
\* after the size check and the prune loop, before the log is opened (what
\* is appended there is what the reader finds, as if it had been appended
\* while the reader was short of it), and after the reader met the end of
\* the file, before the state is saved.
EnvBeforeOpen == pc = "prune" /\ pi > Len(active_rules) /\ h.env < MaxRunEvents

EnvAfterRead == pc = "save_open" /\ h.env < MaxRunEvents

\* The log writer appends a chunk.
EnvAppend ==
  /\ pc = "idle" \/ EnvBeforeOpen \/ EnvAfterRead
  /\ logFile.exists
  /\ \E c \in Chunks :
       /\ Len(logFile.bytes) + Len(c) <= MaxFileBytes
       /\ logFile' = [logFile EXCEPT !.bytes = @ \o c]
  /\ h' = IF pc = "idle" THEN h
          ELSE [h EXCEPT !.appended = TRUE, !.env = @ + 1]
  /\ UNCHANGED <<clock, files, nextId, remote, probe, runs, pc, locals>>

\* Rotation, first half: the log file is moved away.
EnvRemove ==
  /\ pc = "idle" \/ EnvBeforeOpen
  /\ logFile.exists
  /\ logFile' = [exists |-> FALSE, bytes |-> <<>>]
  /\ h' = IF pc = "idle" THEN h
          ELSE [h EXCEPT !.replaced = TRUE, !.env = @ + 1]
  /\ UNCHANGED <<clock, files, nextId, remote, probe, runs, pc, locals>>

\* Rotation, second half: a new, empty log file appears (between
\* invocations; inside one, rotation is EnvTruncate).
EnvCreate ==
  /\ pc = "idle"
  /\ ~logFile.exists
  /\ logFile' = [exists |-> TRUE, bytes |-> <<>>]
  /\ UNCHANGED h
  /\ UNCHANGED <<clock, files, nextId, remote, probe, runs, pc, locals>>

\* Rotation in place (copy and truncate): the log file is emptied.
EnvTruncate ==
  /\ pc = "idle" \/ EnvBeforeOpen
  /\ logFile.exists /\ logFile.bytes # <<>>
  /\ logFile' = [logFile EXCEPT !.bytes = <<>>]
  /\ h' = IF pc = "idle" THEN h
          ELSE [h EXCEPT !.replaced = TRUE, !.env = @ + 1]
  /\ UNCHANGED <<clock, files, nextId, remote, probe, runs, pc, locals>>

\* Time passes.
Tick ==
  /\ pc = "idle" \/ EnvBeforeOpen
  /\ clock + TTL_MINUTES <= MaxClock
  /\ clock' = clock + TTL_MINUTES
  /\ h' = IF pc = "idle" THEN h ELSE [h EXCEPT !.env = @ + 1]
  /\ UNCHANGED <<logFile, files, nextId, remote, probe, runs, pc, locals>>

\* ------------------------------------------------------------------- main
\* load_state, now, os.path.getsize and the rotation check
Start ==
  /\ pc = "idle"
  /\ runs < MaxRuns
  /\ runs' = runs + 1
  /\ LET st == load_state(files["state"])
         rot == logFile.exists /\ Len(logFile.bytes) < st.last_position
     IN
     /\ now' = clock
     /\ active_rules' = st.rules
     /\ updated_rules' = <<>>
     /\ last_position' = IF rot THEN 0 ELSE st.last_position
     /\ state' = IF rot THEN [st EXCEPT !.last_position = 0] ELSE st
     /\ h' = [H0 EXCEPT !.file0 = files["state"],
                        !.offset0 = st.last_position,
                        !.size0 = Len(logFile.bytes),
                        !.rotated = rot]
     /\ pc' = IF LoadRaises(files["state"]) THEN "exc_load"
              ELSE IF logFile.exists THEN "prune" ELSE "fatal"
  /\ pi' = 1
  /\ UNCHANGED <<clock, logFile, files, nextId, remote, probe, fpos, new_position>>

\* One iteration of "for ip, info in active_rules.items()"
PruneStep ==
  /\ pc = "prune"
  /\ pi <= Len(active_rules)
  /\ LET info == active_rules[pi] IN
     IF Expired(info, now)
       THEN \E resp \in DeleteResponses :
              IF resp.exc
                THEN \* requests.delete raises: nothing in main catches it
                     /\ pc' = "exc_delete"
                     /\ h' = [h EXCEPT !.calls = Append(@,
                                [op |-> "delete", ip |-> info.ip, res |-> "exc",
                                 present |-> TRUE, scanned |-> Len(h.lines),
                                 rid |-> UrlId(info.rule_id), at |-> clock])]
                     /\ UNCHANGED <<updated_rules, pi, remote>>
                ELSE LET success == delete_rule(resp) IN
                     /\ updated_rules' = IF KeepAfterDelete(success)
                                           THEN Put(updated_rules, info)
                                           ELSE updated_rules
                     /\ h' = [h EXCEPT !.calls = Append(@,
                                [op |-> "delete", ip |-> info.ip,
                                 res |-> IF success THEN "ok" ELSE "fail",
                                 present |-> TRUE, scanned |-> Len(h.lines),
                                 rid |-> UrlId(info.rule_id), at |-> clock])]
                     /\ remote' = IF ServiceDeletes(resp)
                                    THEN remote \ {UrlId(info.rule_id)}
                                    ELSE remote
                     /\ pi' = pi + 1
                     /\ pc' = pc
       ELSE /\ updated_rules' = Put(updated_rules, info)
            /\ pi' = pi + 1
            /\ UNCHANGED <<pc, h, remote>>
  /\ UNCHANGED <<clock, logFile, files, nextId, probe, runs, state,
                 last_position, active_rules, now, fpos, new_position>>

PruneSkipped == TRUE

\* the prune loop has visited every item
PruneFinished == pi > Len(active_rules)

\* "active_rules = updated_rules", open(LOG_FILE) and f.seek(last_position)
OpenLog ==
  /\ pc = "prune"
  /\ PruneFinished
  /\ active_rules' = updated_rules
  /\ IF logFile.exists
       THEN /\ fpos' = last_position
            /\ new_position' = last_position
            /\ pc' = "scan"
       ELSE /\ pc' = "fatal"
            /\ UNCHANGED <<fpos, new_position>>
  /\ UNCHANGED <<clock, logFile, files, nextId, remote, probe, runs, state, last_position,
                 updated_rules, now, pi, h>>

\* One iteration of "for line in f"
ScanStep ==
  /\ pc = "scan"
  /\ fpos < Len(logFile.bytes)
  /\ IF DecodeFails(logFile.bytes, fpos)
       THEN \* UnicodeDecodeError out of the iteration
            /\ pc' = "exc_decode"
            /\ UNCHANGED <<fpos, new_position, active_rules, nextId, remote, h>>
       ELSE
         LET line == ReadLine(logFile.bytes, fpos)
             ex == extract_login_ip(line.text)
             read == [h EXCEPT !.lines = Append(@, line)]
         IN
         /\ fpos' = fpos + line.raw
         /\ new_position' = new_position + LineBytes(line)
         /\ IF ex.tag = "raise"
              THEN /\ pc' = "exc_extract"
                   /\ h' = read
                   /\ UNCHANGED <<active_rules, nextId, remote>>
              ELSE IF ex.tag = "none" \/ HasKey(active_rules, ex.ip)
                THEN /\ h' = read
                     /\ UNCHANGED <<pc, active_rules, nextId, remote>>
                ELSE \E resp \in CreateResponses(nextId) :
                       LET rule_id == create_rule(resp) IN
                       /\ h' = [read EXCEPT !.calls = Append(@,
                                  [op |-> "create", ip |-> ex.ip,
                                   res |-> IF rule_id # None THEN "ok" ELSE "fail",
                                   present |-> ex.ip \in Keys(active_rules),
                                   scanned |-> Len(read.lines),
                                   rid |-> RespId(resp), at |-> clock])]
                       /\ active_rules' = AfterCreate(active_rules, ex.ip, rule_id,
                                                      ExpiresAt(now, clock))
                       /\ remote' = IF ServiceCreates(resp)
                                      THEN remote \cup {nextId} ELSE remote
                       /\ nextId' = IF ServiceCreates(resp)
                                      THEN nextId + 1 ELSE nextId
                       /\ pc' = pc
  /\ UNCHANGED <<clock, logFile, files, probe, runs, state, last_position,
                 updated_rules, now, pi>>

\* End of file: f.close(), state["last_position"], state["rules"]
ScanEOF ==
  /\ pc = "scan"
  /\ fpos >= Len(logFile.bytes)
  /\ state' = [last_position |-> new_position, rules |-> active_rules]
  /\ pc' = "save_open"
  /\ UNCHANGED <<clock, logFile, files, nextId, remote, probe, runs, last_position,
                 active_rules, updated_rules, now, pi, fpos, new_position, h>>

\* ------------------------------------------------------------- save_state
\* open(tmp_path, "w"): the file exists and is empty
SaveOpenTmp ==
  /\ pc = "save_open"
  /\ files' = [files EXCEPT ![SavePath] =
                 [StateDoc(state) EXCEPT !.full = FALSE]]
  /\ pc' = "save_write"
  /\ UNCHANGED <<clock, logFile, nextId, remote, probe, runs, locals, h>>

\* json.dump and the close of the file: the whole document is written
SaveWrite ==
  /\ pc = "save_write"
  /\ files' = [files EXCEPT ![SavePath] =
                 StateDoc(state)]
  /\ pc' = "save_replace"
  /\ UNCHANGED <<clock, logFile, nextId, remote, probe, runs, locals, h>>

\* os.replace(tmp_path, path)
SaveReplace ==
  /\ pc = "save_replace"
  /\ files' = IF SavePath = "state" THEN files
              ELSE [files EXCEPT !["state"] = files[SavePath],
                                 ![SavePath] = NoFile]
  /\ pc' = "done"
  /\ UNCHANGED <<clock, logFile, nextId, remote, probe, runs, locals, h>>

\* The process is killed inside save_state.
Kill ==
  /\ pc \in {"save_open", "save_write", "save_replace"}
  /\ pc' = "killed"
  /\ UNCHANGED <<clock, logFile, files, nextId, remote, probe, runs, locals, h>>

\* The process is gone; the scheduler may start the next invocation.
Exit ==
  /\ pc \in Terminal
  /\ pc' = "idle"
  /\ state' = DefaultState
  /\ last_position' = 0
  /\ active_rules' = <<>>
  /\ updated_rules' = <<>>
  /\ now' = 0
  /\ pi' = 0
  /\ fpos' = 0
  /\ new_position' = 0
  /\ h' = H0
  /\ UNCHANGED <<clock, logFile, files, nextId, remote, probe, runs>>

Next ==
  \/ EnvAppend \/ EnvRemove \/ EnvCreate \/ EnvTruncate \/ Tick
  \/ Start \/ PruneStep \/ OpenLog \/ ScanStep \/ ScanEOF
  \/ SaveOpenTmp \/ SaveWrite \/ SaveReplace \/ Kill \/ Exit

Spec == Init /\ [][Next]_vars

\* ------------------------------------------------- the functions alone
\* create_rule, delete_rule and load_state applied to one input each; no
\* invocation runs.
InitApi ==
  /\ clock = 0
  /\ logFile = [exists |-> FALSE, bytes |-> <<>>]
  /\ files = [p \in {"state", "tmp"} |-> NoFile]
  /\ nextId = 1
  /\ remote = {}
  /\ probe = NoProbe
  /\ runs = 0
  /\ pc = "idle"
  /\ state = DefaultState
  /\ last_position = 0
  /\ active_rules = <<>>
  /\ updated_rules = <<>>
  /\ now = 0
  /\ pi = 0
  /\ fpos = 0
  /\ new_position = 0
  /\ h = H0

notProbe ==
  <<clock, logFile, files, nextId, remote, runs, pc, locals, h>>

ProbeCreate ==
  /\ \E resp \in ApiCreateResponses :
       probe' = [NoProbe EXCEPT !.op = "create", !.resp = resp,
                                !.rule_id = create_rule(resp)]
  /\ UNCHANGED notProbe

ProbeDelete ==
  /\ \E resp \in ApiDeleteResponses :
       probe' = [NoProbe EXCEPT !.op = "delete", !.resp = resp,
                                !.raised = resp.exc,
                                !.success = ~resp.exc /\ delete_rule(resp)]
  /\ UNCHANGED notProbe

ProbeLoad ==
  /\ \E f \in ApiStateFiles :
       probe' = [NoProbe EXCEPT !.op = "load", !.file = f,
                                !.raised = LoadRaises(f),
                                !.loaded = load_state(f)]
  /\ UNCHANGED notProbe

NextApi == ProbeCreate \/ ProbeDelete \/ ProbeLoad

SpecApi == InitApi /\ [][NextApi]_vars

\* ------------------------------------------------- the scheduler goes on
\* The system invoked again and again over a log that no longer changes,
\* from the moment a recorded rule is due: the state file records rule 1 of
\* IpA, made when the clock was 0, the clock has reached its expires_at, and
\* the log, rotated since, holds up to two chunks.
DueState ==
  [last_position |-> 0,
   rules |-> <<[ip |-> IpA, rule_id |-> Str(1),
               expires_at |-> ExpiresAt(0, 0)]>>]

LiveLogs ==
  {<<>>} \cup Chunks \cup
  {cd[1] \o cd[2] :
     cd \in {p \in Chunks \X Chunks : Len(p[1]) + Len(p[2]) <= MaxFileBytes}}

InitLive ==
  /\ clock = TTL_MINUTES
  /\ \E bytes \in LiveLogs : logFile = [exists |-> TRUE, bytes |-> bytes]
  /\ files = [p \in {"state", "tmp"} |->
                IF p = "state" THEN StateDoc(DueState) ELSE NoFile]
  /\ nextId = 2
  /\ remote = {1}
  /\ probe = NoProbe
  /\ runs = 0
  /\ pc = "idle"
  /\ state = DefaultState
  /\ last_position = 0
  /\ active_rules = <<>>
  /\ updated_rules = <<>>
  /\ now = 0
  /\ pi = 0
  /\ fpos = 0
  /\ new_position = 0
  /\ h = H0

\* The scheduler does not stop after MaxRuns invocations: the count starts
\* over.
Reschedule ==
  /\ pc = "idle"
  /\ runs = MaxRuns
  /\ runs' = 0
  /\ UNCHANGED <<clock, logFile, files, nextId, remote, probe, pc, locals, h>>

NextLive ==
  \/ Start \/ PruneStep \/ OpenLog \/ ScanStep \/ ScanEOF
  \/ SaveOpenTmp \/ SaveWrite \/ SaveReplace \/ Exit \/ Reschedule

\* Every step of a process but those of the scan loop, and the scheduler's
RunMoves ==
  \/ Start \/ PruneStep \/ OpenLog \/ ScanEOF
  \/ SaveOpenTmp \/ SaveWrite \/ SaveReplace \/ Exit \/ Reschedule

\* What a step of the scan loop does to the reader and to the process: the
\* read position moves forward and the loop goes on or the line ends the
\* process, or the iteration raises on the bytes it meets.
ScanMoves ==
  /\ pc = "scan"
  /\ fpos < Len(logFile.bytes)
  /\ \/ /\ fpos' \in (fpos + 1)..Len(logFile.bytes)
        /\ pc' \in {"scan", "exc_extract"}
     \/ /\ fpos' = fpos
        /\ pc' = "exc_decode"

\* A started process runs on to its end, and the scheduler starts the next.
LiveSpec ==
  /\ InitLive /\ [][NextLive]_vars
  /\ WF_vars(RunMoves)
  /\ WF_<<fpos, pc>>(ScanMoves)

\* ------------------------------------------------------------ properties
\* The rule set the invocation loaded, and the one it saved (at "done").
LoadedRules == load_state(h.file0).rules

SavedState == files["state"].data

Range(seq) == {seq[i] : i \in DOMAIN seq}

Calls(op) == {c \in Range(h.calls) : c.op = op}

RECURSIVE SumUtf8(_)
\* UTF-8 length of the lines as the invocation read them
SumUtf8(lines) ==
  IF lines = <<>> THEN 0
  ELSE Len(Head(lines).text) + (IF Head(lines).term THEN 1 ELSE 0)
         + SumUtf8(Tail(lines))

RECURSIVE SumRaw(_)
\* bytes the lines read take in the file
SumRaw(lines) ==
  IF lines = <<>> THEN 0 ELSE Head(lines).raw + SumRaw(Tail(lines))

\* C1: no create call is issued for an IP while its record is in the rule
\* set, whatever the record's expiry state.
C1_Dedup == \A c \in Calls("create") : ~c.present

\* C1 witness: a login line of an IP was scanned while the IP's expired
\* record, whose deletion failed in this run, was in the rule set, and no
\* create call was made.
C1_Witness ==
  /\ pc = "scan"
  /\ \E l \in Range(h.lines) :
       LET ex == extract_login_ip(l.text) IN
       /\ ex.tag = "ip"
       /\ ex.ip \in Keys(active_rules)
       /\ now >= Get(active_rules, ex.ip).expires_at.iso
       /\ \E d \in Calls("delete") : d.ip = ex.ip /\ d.res = "fail"
  /\ Calls("create") = {}

\* C2: a loaded record that is unexpired, or expired with a failed deletion,
\* is in the saved state with the same ruleId and expiresAt; no delete call is
\* issued for an unexpired record.
C2_Retained ==
  /\ pc = "done" =>
       \A r \in Range(LoadedRules) :
         (now < r.expires_at.iso
            \/ \E d \in Calls("delete") : d.ip = r.ip /\ d.res = "fail")
           => r \in Range(SavedState.rules)
  /\ \A d \in Calls("delete") :
       \E r \in Range(LoadedRules) : r.ip = d.ip /\ now >= r.expires_at.iso

\* C2 witness: a run that saved after the deletion of an expired record failed
C2_Witness ==
  /\ pc = "done"
  /\ \E r \in Range(LoadedRules) :
       /\ now >= r.expires_at.iso
       /\ \E d \in Calls("delete") : d.ip = r.ip /\ d.res = "fail"
       /\ r \in Range(SavedState.rules)

\* C3: a delete call that ends in a timeout or transport error counts as a
\* failed deletion: the run is not ended by it, and the state it saves keeps
\* the record.
C3_DeleteErrorIsFailure ==
  \A d \in Calls("delete") :
    d.res = "exc" =>
      /\ pc # "exc_delete"
      /\ pc = "done" => d.ip \in Keys(SavedState.rules)

\* C4: extraction of any line yields an IP or nothing, and no run is ended by
\* a line.
C4_LinesNeverFatal ==
  /\ \A l \in Range(h.lines) : extract_login_ip(l.text).tag \in {"ip", "none"}
  /\ pc # "exc_extract"

C6_RotationRecovery ==
  (pc = "done" /\ h.rotated /\ ~h.appended /\ ~h.replaced) =>
    /\ SumRaw(h.lines) = Len(logFile.bytes)
    /\ SavedState.last_position = Len(logFile.bytes)

\* C7: every delete call of a run comes before the first line is read and
\* before any create call, and once a line has been read or a create call
\* made every loaded rule with expiresAt <= now has had its delete call.
C7_PruneBeforeScan ==
  /\ \A i \in DOMAIN h.calls :
       h.calls[i].op = "delete" =>
         /\ h.calls[i].scanned = 0
         /\ \A j \in 1..i : h.calls[j].op = "delete"
  /\ (h.lines # <<>> \/ Calls("create") # {}) =>
       \A r \in Range(LoadedRules) :
         now >= r.expires_at.iso => \E d \in Calls("delete") : d.ip = r.ip

\* C7 witness: lines are being read in a run that made a delete call
C7_Witness ==
  /\ pc = "scan" /\ h.lines # <<>>
  /\ Calls("delete") # {}
  /\ Calls("create") # {}

\* C8 as stated: the IP of a rule whose deletion succeeded is not in the
\* saved rule set.
C8_Original ==
  pc = "done" =>
    \A d \in Calls("delete") : d.res = "ok" => d.ip \notin Keys(SavedState.rules)

\* C8 amended: ... unless a create call for that IP succeeded later in the
\* same run; the saved record is then the new one, not the deleted one.
C8_DeletedAbsent ==
  pc = "done" =>
    \A d \in Calls("delete") :
      d.res = "ok" =>
        \/ d.ip \notin Keys(SavedState.rules)
        \/ /\ \E c \in Calls("create") : c.ip = d.ip /\ c.res = "ok"
           /\ Get(SavedState.rules, d.ip) \notin Range(LoadedRules)

\* C8 witness: a run saved after a successful deletion, without the IP
C8_Witness ==
  /\ pc = "done"
  /\ \E d \in Calls("delete") : d.res = "ok" /\ d.ip \notin Keys(SavedState.rules)

\* C9: until the rename the state file is the one the run started with, and
\* after it the complete new state: never a partial or mixed file.
C9_AtomicSave ==
  pc # "idle" =>
    IF pc = "done"
      THEN files["state"] = StateDoc(state)
      ELSE files["state"] = h.file0

\* C9 witness: killed between the write of the temporary file and the
\* rename, with a previous state file in place
C9_Witness ==
  /\ pc = "killed"
  /\ files["tmp"].exists /\ files["tmp"].full
  /\ h.file0.exists /\ h.file0.full
  /\ files["tmp"].data # h.file0.data
  /\ files["state"] = h.file0

\* C10: a run that ends with the log-file-absent error has made no remote
\* call and has not changed the state file.
C10_FatalTouchesNothing ==
  pc = "fatal" => h.calls = <<>> /\ files["state"] = h.file0

\* The lines read so far in which extraction found ip
LinesOf(ip) ==
  {k \in DOMAIN h.lines :
     LET ex == extract_login_ip(h.lines[k].text) IN ex.tag = "ip" /\ ex.ip = ip}

CreatesOf(ip) == {c \in Calls("create") : c.ip = ip}

Ips == {IpA, IpB}

\* C11 as stated: an IP with no prior rule that appears in two lines of a
\* run gets exactly one create call.
C11_Original ==
  \A ip \in Ips :
    (ip \notin Keys(LoadedRules) /\ Cardinality(LinesOf(ip)) >= 2)
      => Cardinality(CreatesOf(ip)) = 1

\* C11 amended: ... when the create call of the first occurrence succeeds.
C11_OneCreate ==
  \A ip \in Ips :
    (/\ ip \notin Keys(LoadedRules)
     /\ Cardinality(LinesOf(ip)) >= 2
     /\ \E c \in CreatesOf(ip) :
          c.res = "ok" /\ \A k \in LinesOf(ip) : c.scanned <= k)
      => Cardinality(CreatesOf(ip)) = 1

\* C11 witness: two lines of an IP read, the first created its rule
C11_Witness ==
  /\ IpA \notin Keys(LoadedRules)
  /\ Cardinality(LinesOf(IpA)) = 2
  /\ \E c \in CreatesOf(IpA) : c.res = "ok"
  /\ Cardinality(CreatesOf(IpA)) = 1

\* C12: load_state never fails: no run ends in it, and a run that met a state
\* file other than a complete document with both fields started from the
\* default state.
C12_LoadFailsOpen ==
  /\ pc # "exc_load"
  /\ (pc # "idle" /\ ~(h.file0.exists /\ h.file0.full /\ h.file0.shape = "state"))
       => (LoadedRules = <<>> /\ h.offset0 = 0)

C13_FailedCreateRetried ==
  \A ip \in Ips :
    ip \notin Keys(LoadedRules) =>
      /\ \A k \in LinesOf(ip) :
           (\A c \in CreatesOf(ip) : c.scanned < k => c.res # "ok")
             => \E c \in CreatesOf(ip) : c.scanned = k
      /\ (\A c \in CreatesOf(ip) : c.res # "ok") =>
           /\ ip \notin Keys(active_rules)
           /\ pc = "done" => ip \notin Keys(SavedState.rules)

\* C13 witness: a run whose first create call for an IP failed and whose
\* second, made for the next line with that IP, succeeded
C13_Witness ==
  /\ pc = "done"
  /\ IpA \notin Keys(LoadedRules)
  /\ \E c1, c2 \in CreatesOf(IpA) :
       /\ c1.scanned < c2.scanned
       /\ c1.res # "ok" /\ c2.res = "ok"
  /\ IpA \in Keys(SavedState.rules)

\* C14: after a create call that succeeded, the run's rule set holds under
\* the IP extracted from the line a record with the identifier the call
\* returned and with expires_at = the time of the call + TTL_MINUTES, which
\* is not before the run's now + TTL_MINUTES.
C14_RecordOfCreate ==
  \A c \in Calls("create") :
    c.res = "ok" =>
      /\ extract_login_ip(h.lines[c.scanned].text).ip = c.ip
      /\ HasKey(active_rules, c.ip)
      /\ Get(active_rules, c.ip) =
           [ip |-> c.ip, rule_id |-> Str(c.rid),
            expires_at |-> Iso(c.at + TTL_MINUTES)]
      /\ FromIso(Get(active_rules, c.ip).expires_at) >= now + TTL_MINUTES
      /\ pc = "done" => Get(SavedState.rules, c.ip) = Get(active_rules, c.ip)

\* C14 witness: a create call that succeeded later than the run's now
C14_Witness ==
  /\ pc = "done"
  /\ \E c \in Calls("create") :
       /\ c.res = "ok" /\ c.at > now
       /\ FromIso(Get(SavedState.rules, c.ip).expires_at) = c.at + TTL_MINUTES

\* The rules the state file records, by identifier
PersistedIds ==
  {UrlId(r.rule_id) : r \in Range(load_state(files["state"]).rules)}

\* C16: between invocations the rules the state file records are the rules
\* that exist in the service: every rule created and not deleted has a
\* record, and every record is of a rule not yet deleted.
C16_StateMatchesService == pc = "idle" => PersistedIds = remote

\* C17: the first run over a log that is only appended to saves an offset
\* that lies on a line boundary: 0, or just behind a line feed.
C17_OffsetOnLineBoundary ==
  (pc = "done" /\ runs = 1 /\ ~h.rotated /\ ~h.replaced) =>
    LET off == SavedState.last_position IN
      off = 0 \/ (off <= Len(logFile.bytes) /\ logFile.bytes[off] = "LF")

\* A run that began with the saved offset at the end of the log and with no
\* loaded rule due
NothingToDo ==
  /\ pc # "idle"
  /\ h.offset0 = h.size0
  /\ \A r \in Range(LoadedRules) : now < FromIso(r.expires_at)

\* C19 as stated: such a run makes no remote call and saves the state it
\* loaded.
C19_Original ==
  NothingToDo =>
    /\ h.calls = <<>>
    /\ pc = "done" => files["state"] = StateDoc(load_state(h.file0))

\* C19 amended: such a run, nothing being appended to the log while it is in
\* progress, makes no remote call and saves the state it loaded.
C19_IdempotentRerun ==
  (NothingToDo /\ ~h.appended) =>
    /\ h.calls = <<>>
    /\ pc = "done" => files["state"] = StateDoc(load_state(h.file0))

\* C19 witness: a completed run over a log it had read to the end, with a
\* loaded rule that is not yet due
C19_Witness ==
  /\ NothingToDo /\ ~h.appended
  /\ pc = "done"
  /\ h.offset0 > 0
  /\ LoadedRules # <<>>
  /\ files["state"] = h.file0

\* A delete call for rule 1 has returned success in the current run.
DeleteSucceeds ==
  \E c \in Calls("delete") : c.rid = 1 /\ c.res = "ok"

\* C18: if runs go on and delete calls for rule 1 return success again and
\* again, then at some time rule 1 is gone from the service and from the
\* state file.
C18_EventualCleanup ==
  ([]<>DeleteSucceeds) => <>(1 \notin remote /\ 1 \notin PersistedIds)

====
